---------------------------- MODULE Spec2Model ----------------------------
(***************************************************************************)
(* Model of the Mimosa26 raw data interpreter                              *)
(* (pyBAR_mimosa26_interpreter/raw_data_interpreter.py).                   *)
(*                                                                         *)
(* A raw data word is a 32 bit value.  It is held as the pair              *)
(* <<upper 16 bits, lower 16 bits>>, because TLC's integers are 32 bit     *)
(* signed; every mask and shift of the source is written on the half it    *)
(* reads.  The 32 bit counters (time stamps, frame numbers) are held the   *)
(* same way.  The numba-compiled build_hits indexes its arrays without     *)
(* bounds check: a negative index wraps around, and an index past the end  *)
(* reads and writes the memory behind the array.  Each array of the model  *)
(* therefore carries one more cell than the source allocates: the memory   *)
(* behind it, whose content after allocation is not determined.            *)
(***************************************************************************)
EXTENDS Integers, Sequences, FiniteSets

(***************************************************************************)
(* Program constants                                                       *)
(***************************************************************************)
FRAME_UNIT_CYCLE == 4608

MULTIPLE_TRG_WORD == \h0001
NO_TRG_WORD == \h0002
DATA_ERROR == \h0004
EVENT_INCOMPLETE == \h0008
UNKNOWN_WORD == \h0010
UNEVEN_EVENT == \h0020
TRG_ERROR == \h0040
TRUNC_EVENT == \h0080
TRAILER_H_ERROR == \h0100
TRAILER_L_ERROR == \h0200
MIMOSA_OVERFLOW == \h0400
NO_HIT == \h0800
COL_ERROR == \h1000
ROW_ERROR == \h2000
TRG_WORD == \h4000
TS_OVERFLOW == \h8000

\* Number of Mimosa26 planes: the length of the per plane arrays.
NPlanes == 6

\* Plane number written into the hits of a TLU word.
TluPlane == 255

\* Largest valid column + 1 and the row limit the source compares with.
ColLimit == 1152
RowLimit == 576

(***************************************************************************)
(* Bounds of the model                                                     *)
(***************************************************************************)
\* Calls of interpret_raw_data in one behaviour.
MaxCalls == 2

\* max_hits_per_chunk the interpreter is constructed with (the source's
\* default is 500000; a small value makes the hit buffer grow).
MaxHitsPerChunk == 2

(***************************************************************************)
(* Fixed width helpers                                                     *)
(***************************************************************************)
W16 == 65536

\* x has the single bit `bit` set.
HasBit(x, bit) == (x \div bit) % 2 = 1

\* x | bit for a single bit.
OrBit(x, bit) == IF HasBit(x, bit) THEN x ELSE x + bit

\* a < b for two values held as <<upper, lower>>.
Less32(a, b) == a[1] < b[1] \/ (a[1] = b[1] /\ a[2] < b[2])

\* (a + n) % 2^32 for a held as <<upper, lower>> and 0 <= n < 2^16.
Add32(a, n) ==
    LET lo == a[2] + n
    IN  <<(a[1] + lo \div W16) % W16, lo % W16>>

(***************************************************************************)
(* Word decoding                                                           *)
(***************************************************************************)
\* (0xff000000 & word) == 0x20000000
is_mimosa_data(word) == word[1] \div 256 = \h20

\* (0x00020000 & word) == 0x00020000
is_data_loss(word) == HasBit(word[1], 2)

\* (word >> 20) & 0xf
get_plane_number(word) == (word[1] \div 16) % 16

\* 0x0000ffff & word
get_frame_id_low(word) == word[2]

\* (0x0000ffff & word) << 16, held as the upper half
get_frame_id_high(word) == word[2]

is_frame_trailer0(word) == word[2] = \hAA50

\* 0xaa50 | plane: the low nibble of 0xaa50 is 0 and plane < 16
is_frame_trailer1(word, plane) == word[2] = \hAA50 + plane

get_frame_length(word) == word[2] * 2

get_n_hits(word) == word[2] % 4

get_column(word) == (word[2] \div 4) % 2048

get_row(word) == (word[2] \div 16) % 2048

\* (0x00010000 & word) == 0x00010000
is_frame_header(word) == HasBit(word[1], 1)

get_m26_timestamp_low(word) == word[2]

\* (0x0000ffff & word) << 16, held as the upper half
get_m26_timestamp_high(word) == word[2]

get_n_words(word) == word[2] % 16

has_overflow(word) == HasBit(word[2], \h8000)

\* (0x80000000 & word) == 0x80000000
is_trigger_word(word) == HasBit(word[1], \h8000)

\* (word & 0x7fff0000) >> 16
get_trigger_timestamp(word) == word[1] % \h8000

get_trigger_number(word, trigger_data_format) ==
    IF trigger_data_format = 2
    THEN word[2]
    ELSE (word[1] % \h8000) * W16 + word[2]


(***************************************************************************)
(* Arrays                                                                  *)
(***************************************************************************)
\* An index that is held at the first cell instead of wrapping around.
Index_Clamp(i, length) == IF i < 0 THEN 0 ELSE i

\* The cell an index selects in an array of `length` cells: numba wraps a
\* negative index around; an index >= length selects the memory behind the
\* array (cell `length` of the model's array).
Index(i, length) == IF i < 0 THEN i + length ELSE i

\* event_status[plane_id] |= status_code
add_event_status(plane_id, event_status, status_code) ==
    [event_status EXCEPT ![Index(plane_id, NPlanes + 1)] = OrBit(@, status_code)]

(***************************************************************************)
(* Hit buffer                                                              *)
(***************************************************************************)
\* A store that does not grow the buffer: the hit is lost when the buffer is
\* full.
StoreHit_NoGrowth(b, hit) ==
    IF Len(b.hits) >= b.hits_shape
    THEN b
    ELSE [b EXCEPT !.hits = Append(@, hit)]

\* One store into hits[hit_index], with the growth of the buffer that
\* precedes it; hit_index is Len(b.hits), hits.shape[0] is b.hits_shape.
StoreHit(b, hit) ==
    LET shape == IF Len(b.hits) >= b.hits_shape
                 THEN b.hits_shape + b.max_hits_per_chunk
                 ELSE b.hits_shape
    IN  [b EXCEPT !.hits_shape = shape, !.hits = Append(@, hit)]

\* A hit that repeats the column of the column word for every pixel.
M26Hit_SameColumn(b, plane_id, column, k) ==
    [plane          |-> (plane_id + 1) % 256,
     frame          |-> b.frame_id[Index(plane_id + 1, NPlanes + 1)],
     time_stamp     |-> b.m26_timestamps[Index(plane_id, NPlanes)],
     trigger_number |-> IF b.trigger_number < 0 THEN 0 ELSE b.trigger_number % W16,
     column         |-> column % W16,
     row            |-> b.row[Index(plane_id, NPlanes)] % W16,
     event_status   |-> b.event_status[Index(plane_id + 1, NPlanes + 1)]]

\* A hit that takes trigger_number as it is, also before the first trigger.
M26Hit_NoTriggerCheck(b, plane_id, column, k) ==
    [plane          |-> (plane_id + 1) % 256,
     frame          |-> b.frame_id[Index(plane_id + 1, NPlanes + 1)],
     time_stamp     |-> b.m26_timestamps[Index(plane_id, NPlanes)],
     trigger_number |-> b.trigger_number % W16,
     column         |-> (column + k) % W16,
     row            |-> b.row[Index(plane_id, NPlanes)] % W16,
     event_status   |-> b.event_status[Index(plane_id + 1, NPlanes + 1)]]

\* The hit stored for pixel k of a column word (fields cut to the widths of
\* hit_dtype).
M26Hit(b, plane_id, column, k) ==
    [plane          |-> (plane_id + 1) % 256,
     frame          |-> b.frame_id[Index(plane_id + 1, NPlanes + 1)],
     time_stamp     |-> b.m26_timestamps[Index(plane_id, NPlanes)],
     trigger_number |-> IF b.trigger_number < 0 THEN 0 ELSE b.trigger_number % W16,
     column         |-> (column + k) % W16,
     row            |-> b.row[Index(plane_id, NPlanes)] % W16,
     event_status   |-> b.event_status[Index(plane_id + 1, NPlanes + 1)]]

\* for k in range(n_hits + 1): store one hit, from pixel k on.
RECURSIVE StoreHits(_, _, _, _, _)
StoreHits(b, plane_id, column, k, n_hits) ==
    IF k > n_hits
    THEN b
    ELSE StoreHits(StoreHit(b, M26Hit(b, plane_id, column, k)),
                   plane_id, column, k + 1, n_hits)

\* for i in range(1, 7): event_status[i] = 0
ResetEventStatus(event_status) ==
    [i \in DOMAIN event_status |-> IF i \in 1..NPlanes THEN 0 ELSE event_status[i]]

(***************************************************************************)
(* Mimosa26 words                                                          *)
(***************************************************************************)
\* A frame start that does not keep the time stamp and the number of the
\* last frame of plane 1.
FrameHeader_NoLatch(b, word, plane_id) ==
    LET p == Index(plane_id, NPlanes)
    IN  [b EXCEPT !.m26_timestamps[p] = <<@[1], get_m26_timestamp_low(word)>>,
                  !.word_index[p] = 0,
                  !.frame_length[p] = -1,
                  !.n_words[p] = 0,
                  !.m26_data_loss[p] = FALSE]

\* A frame start that leaves the plane in loss mode.
FrameHeader_KeepsLoss(b, word, plane_id) ==
    LET p  == Index(plane_id, NPlanes)
        b1 == IF plane_id = 0
              THEN [b EXCEPT !.last_m26_timestamps = b.m26_timestamps[0],
                             !.last_frame_id = b.frame_id[1]]
              ELSE b
    IN  [b1 EXCEPT !.m26_timestamps[p] = <<@[1], get_m26_timestamp_low(word)>>,
                   !.word_index[p] = 0,
                   !.frame_length[p] = -1,
                   !.n_words[p] = 0]

\* A word with the frame start flag: new event for the plane.
FrameHeader(b, word, plane_id) ==
    LET p  == Index(plane_id, NPlanes)
        b1 == IF plane_id = 0
              THEN [b EXCEPT !.last_m26_timestamps = b.m26_timestamps[0],
                             !.last_frame_id = b.frame_id[1]]
              ELSE b
    IN  [b1 EXCEPT !.m26_timestamps[p] = <<@[1], get_m26_timestamp_low(word)>>,
                   !.word_index[p] = 0,
                   !.frame_length[p] = -1,
                   !.n_words[p] = 0,
                   !.m26_data_loss[p] = FALSE]

\* A header high word that replaces the time stamp instead of keeping its
\* lower half.
HeaderHigh_DropsLow(b, word, plane_id) ==
    [b EXCEPT !.m26_timestamps[Index(plane_id, NPlanes)] =
                  <<get_m26_timestamp_high(word), 0>>]

\* Word index 1: the frame header high word.
HeaderHigh(b, word, plane_id) ==
    LET p  == Index(plane_id, NPlanes)
        b1 == IF get_m26_timestamp_high(word) < b.m26_timestamps[p][1]
              THEN [b EXCEPT !.event_status =
                        add_event_status(plane_id + 1, @, TS_OVERFLOW)]
              ELSE b
    IN  [b1 EXCEPT !.m26_timestamps[p] = <<get_m26_timestamp_high(word), @[2]>>]

\* A row word that latches the number of column words without the row.
RowWord_NoRowLatch(b, word, plane_id) ==
    LET p  == Index(plane_id, NPlanes)
        b1 == IF b.word_index[p] = 5 + b.frame_length[p]
              THEN [b EXCEPT !.event_status =
                        add_event_status(plane_id + 1, @, UNEVEN_EVENT)]
              ELSE [b EXCEPT !.n_words[p] = get_n_words(word)]
        b2 == IF has_overflow(word)
              THEN [b1 EXCEPT !.event_status =
                        add_event_status(plane_id + 1, @, MIMOSA_OVERFLOW),
                              !.n_words[p] = 0]
              ELSE b1
    IN  IF b2.row[p] > RowLimit
        THEN [b2 EXCEPT !.event_status =
                  add_event_status(plane_id + 1, @, ROW_ERROR)]
        ELSE b2

\* First word of a row: row and number of column words that follow.
RowWord(b, word, plane_id) ==
    LET p  == Index(plane_id, NPlanes)
        b1 == IF b.word_index[p] = 5 + b.frame_length[p]
              THEN [b EXCEPT !.event_status =
                        add_event_status(plane_id + 1, @, UNEVEN_EVENT)]
              ELSE [b EXCEPT !.n_words[p] = get_n_words(word),
                             !.row[p] = get_row(word)]
        b2 == IF has_overflow(word)
              THEN [b1 EXCEPT !.event_status =
                        add_event_status(plane_id + 1, @, MIMOSA_OVERFLOW),
                              !.n_words[p] = 0]
              ELSE b1
    IN  IF b2.row[p] > RowLimit
        THEN [b2 EXCEPT !.event_status =
                  add_event_status(plane_id + 1, @, ROW_ERROR)]
        ELSE b2

\* A column word: counts the row's words down and stores n_hits + 1 hits.
ColumnWord(b, word, plane_id) ==
    LET p      == Index(plane_id, NPlanes)
        column == get_column(word)
        b1     == [b EXCEPT !.n_words[p] = @ - 1]
        b2     == IF column >= ColLimit
                  THEN [b1 EXCEPT !.event_status =
                            add_event_status(plane_id + 1, @, COL_ERROR)]
                  ELSE b1
        b3     == StoreHits(b2, plane_id, column, 0, get_n_hits(word))
    IN  [b3 EXCEPT !.event_status = ResetEventStatus(@)]

\* A dispatch that counts the words behind the trailer without putting the
\* plane in loss mode.
FrameWord_NoOverrun(b, word, plane_id) ==
    LET p  == Index(plane_id, NPlanes)
        wi == b.word_index[p]
        fl == b.frame_length[p]
    IN  IF wi = 1 THEN HeaderHigh(b, word, plane_id)
        ELSE IF wi = 2 THEN
            [b EXCEPT !.frame_id[Index(plane_id + 1, NPlanes + 1)] =
                          <<@[1], get_frame_id_low(word)>>]
        ELSE IF wi = 3 THEN
            [b EXCEPT !.frame_id[Index(plane_id + 1, NPlanes + 1)] =
                          <<get_frame_id_high(word), @[2]>>]
        ELSE IF wi = 4 THEN
            [b EXCEPT !.frame_length[p] = get_frame_length(word)]
        ELSE IF wi = 5 THEN
            IF fl # get_frame_length(word)
            THEN [b EXCEPT !.event_status =
                      add_event_status(plane_id + 1, @, EVENT_INCOMPLETE)]
            ELSE b
        ELSE IF wi = 5 + fl + 1 THEN
            IF ~is_frame_trailer0(word)
            THEN [b EXCEPT !.event_status =
                      add_event_status(plane_id + 1, @, TRAILER_H_ERROR)]
            ELSE b
        ELSE IF wi = 5 + fl + 2 THEN
            IF ~is_frame_trailer1(word, plane_id + 1)
            THEN [b EXCEPT !.event_status =
                      add_event_status(plane_id + 1, @, TRAILER_L_ERROR)]
            ELSE b
        ELSE IF wi > 5 + fl + 2 THEN b
        ELSE IF b.n_words[p] = 0 THEN RowWord(b, word, plane_id)
        ELSE ColumnWord(b, word, plane_id)

\* A word of a plane that is neither flagged nor discarded: its meaning is
\* its position in the frame.  b.word_index is already counted up.
FrameWord(b, word, plane_id) ==
    LET p  == Index(plane_id, NPlanes)
        wi == b.word_index[p]
        fl == b.frame_length[p]
    IN  IF wi = 1 THEN HeaderHigh(b, word, plane_id)
        ELSE IF wi = 2 THEN
            [b EXCEPT !.frame_id[Index(plane_id + 1, NPlanes + 1)] =
                          <<@[1], get_frame_id_low(word)>>]
        ELSE IF wi = 3 THEN
            [b EXCEPT !.frame_id[Index(plane_id + 1, NPlanes + 1)] =
                          <<get_frame_id_high(word), @[2]>>]
        ELSE IF wi = 4 THEN
            [b EXCEPT !.frame_length[p] = get_frame_length(word)]
        ELSE IF wi = 5 THEN
            IF fl # get_frame_length(word)
            THEN [b EXCEPT !.event_status =
                      add_event_status(plane_id + 1, @, EVENT_INCOMPLETE)]
            ELSE b
        ELSE IF wi = 5 + fl + 1 THEN
            IF ~is_frame_trailer0(word)
            THEN [b EXCEPT !.event_status =
                      add_event_status(plane_id + 1, @, TRAILER_H_ERROR)]
            ELSE b
        ELSE IF wi = 5 + fl + 2 THEN
            IF ~is_frame_trailer1(word, plane_id + 1)
            THEN [b EXCEPT !.event_status =
                      add_event_status(plane_id + 1, @, TRAILER_L_ERROR)]
            ELSE b
        ELSE IF wi > 5 + fl + 2 THEN
            [b EXCEPT !.m26_data_loss[p] = TRUE]
        ELSE IF b.n_words[p] = 0 THEN RowWord(b, word, plane_id)
        ELSE ColumnWord(b, word, plane_id)

\* A branch that does not discard the words of a plane that lost data.
M26Word_NoTrash(b, word) ==
    LET plane_id == get_plane_number(word) - 1
        p        == Index(plane_id, NPlanes)
    IN  IF is_data_loss(word)
        THEN [b EXCEPT !.m26_data_loss[p] = TRUE]
        ELSE IF is_frame_header(word)
        THEN FrameHeader(b, word, plane_id)
        ELSE FrameWord([b EXCEPT !.word_index[p] = @ + 1], word, plane_id)

\* The branch of the loop body for a Mimosa26 data word.
M26Word(b, word) ==
    LET plane_id == get_plane_number(word) - 1
        p        == Index(plane_id, NPlanes)
    IN  IF is_data_loss(word)
        THEN [b EXCEPT !.m26_data_loss[p] = TRUE]
        ELSE IF is_frame_header(word)
        THEN FrameHeader(b, word, plane_id)
        ELSE IF b.m26_data_loss[p] = TRUE
        THEN b
        ELSE FrameWord([b EXCEPT !.word_index[p] = @ + 1], word, plane_id)

(***************************************************************************)
(* TLU words                                                               *)
(***************************************************************************)
\* The check of the trigger number of a TLU word against the last one:
\* TRUE when TRG_ERROR is to be set.
TriggerNumberError(last_trigger_number, trigger_number, trigger_number_tmp) ==
    /\ last_trigger_number >= 0
    /\ trigger_number >= 0
    /\ last_trigger_number + 1 # trigger_number_tmp
    /\ trigger_number_tmp > 0

\* A trigger time stamp that is moved by 2**16 instead of 2**15 when it is
\* before last_m26_timestamps.
TriggerTimestamp_WideWrap(word, last_m26_timestamps) ==
    LET ts == <<last_m26_timestamps[1],
                (last_m26_timestamps[2] \div \h8000) * \h8000
                    + get_trigger_timestamp(word)>>
    IN  IF Less32(ts, last_m26_timestamps)
        THEN <<ts[1] + 1, ts[2]>>
        ELSE ts

\* get_trigger_timestamp(word) | (last_m26_timestamps & 0xffff8000), then
\* plus 2**15 when that is before last_m26_timestamps.  The value is a 64 bit
\* integer in the source: the upper half may reach 2^16.
TriggerTimestamp(word, last_m26_timestamps) ==
    LET ts == <<last_m26_timestamps[1],
                (last_m26_timestamps[2] \div \h8000) * \h8000
                    + get_trigger_timestamp(word)>>
        lo == ts[2] + \h8000
    IN  IF Less32(ts, last_m26_timestamps)
        THEN <<ts[1] + lo \div W16, lo % W16>>
        ELSE ts

\* A distance that is counted from last_m26_timestamps & 0xffff8000.
DeltaTimestamp_FromMasked(trigger_timestamp, last_m26_timestamps) ==
    (trigger_timestamp[1] - last_m26_timestamps[1]) * W16
        + trigger_timestamp[2] - (last_m26_timestamps[2] \div \h8000) * \h8000

\* Distance of the trigger time stamp to the time stamp of the last frame.
DeltaTimestamp(trigger_timestamp, last_m26_timestamps) ==
    IF Less32(trigger_timestamp, last_m26_timestamps)
    THEN (trigger_timestamp[1] + W16 - last_m26_timestamps[1]) * W16
             + trigger_timestamp[2] - last_m26_timestamps[2]
    ELSE (trigger_timestamp[1] - last_m26_timestamps[1]) * W16
             + trigger_timestamp[2] - last_m26_timestamps[2]

\* A TLU branch that keeps the number of the word itself as the last trigger
\* number: the next word is checked against the word before it.
TluWord_OneStepBack(b, word) ==
    LET trigger_number_tmp == get_trigger_number(word, b.trigger_data_format)
        status  == IF TriggerNumberError(b.last_trigger_number, b.trigger_number,
                                         trigger_number_tmp)
                   THEN OrBit(TRG_WORD, TRG_ERROR)
                   ELSE TRG_WORD
        ts      == TriggerTimestamp(word, b.last_m26_timestamps)
        delta   == DeltaTimestamp(ts, b.last_m26_timestamps)
        frame   == Add32(b.last_frame_id, delta \div FRAME_UNIT_CYCLE)
        b1      == [b EXCEPT !.event_status[0] = status,
                             !.last_trigger_number = trigger_number_tmp,
                             !.trigger_number = trigger_number_tmp,
                             !.trigger_timestamp = ts,
                             !.frame_id[0] = frame]
    IN  StoreHit(b1, [plane          |-> TluPlane,
                      frame          |-> frame,
                      time_stamp     |-> <<ts[1] % W16, ts[2]>>,
                      trigger_number |-> trigger_number_tmp % W16,
                      column         |-> 0,
                      row            |-> (delta % FRAME_UNIT_CYCLE) % W16,
                      event_status   |-> status])

\* The branch of the loop body for a TLU word.
TluWord(b, word) ==
    LET trigger_number_tmp == get_trigger_number(word, b.trigger_data_format)
        status  == IF TriggerNumberError(b.last_trigger_number, b.trigger_number,
                                         trigger_number_tmp)
                   THEN OrBit(TRG_WORD, TRG_ERROR)
                   ELSE TRG_WORD
        ts      == TriggerTimestamp(word, b.last_m26_timestamps)
        delta   == DeltaTimestamp(ts, b.last_m26_timestamps)
        frame   == Add32(b.last_frame_id, delta \div FRAME_UNIT_CYCLE)
        b1      == [b EXCEPT !.event_status[0] = status,
                             !.last_trigger_number = b.trigger_number,
                             !.trigger_number = trigger_number_tmp,
                             !.trigger_timestamp = ts,
                             !.frame_id[0] = frame]
    IN  StoreHit(b1, [plane          |-> TluPlane,
                      frame          |-> frame,
                      time_stamp     |-> <<ts[1] % W16, ts[2]>>,
                      trigger_number |-> trigger_number_tmp % W16,
                      column         |-> 0,
                      row            |-> (delta % FRAME_UNIT_CYCLE) % W16,
                      event_status   |-> status])

(***************************************************************************)
(* build_hits                                                              *)
(***************************************************************************)
\* The body of the loop over the raw data words, for one word.
ProcessWord(b, word) ==
    IF is_mimosa_data(word) THEN M26Word(b, word)
    ELSE IF is_trigger_word(word) THEN TluWord(b, word)
    ELSE [b EXCEPT !.event_status = add_event_status(0, @, UNKNOWN_WORD)]

\* last_trigger_number at the start of a call.
InitLastTriggerNumber(trigger_number) ==
    IF trigger_number <= 0 THEN -1 ELSE trigger_number - 1

\* The names of the fields the interpreter object keeps between calls.
SelfFields ==
    {"frame_id", "last_frame_id", "frame_length", "m26_data_loss", "word_index",
     "n_words", "row", "event_status", "trigger_number", "m26_timestamps",
     "trigger_timestamp", "last_m26_timestamps", "max_hits_per_chunk",
     "trigger_data_format"}

\* The variables of a call of build_hits before the loop: the arguments and
\* the locals hits, hit_index (the length of hits) and last_trigger_number.
EnterBuildHits(s) ==
    [f \in SelfFields \cup {"hits", "hits_shape", "last_trigger_number"} |->
        IF f = "hits" THEN <<>>
        ELSE IF f = "hits_shape" THEN s.max_hits_per_chunk
        ELSE IF f = "last_trigger_number" THEN InitLastTriggerNumber(s.trigger_number)
        ELSE s[f]]

\* The loop over raw_data, from word i on.
RECURSIVE Loop(_, _, _)
Loop(b, raw_data, i) ==
    IF i > Len(raw_data)
    THEN b
    ELSE Loop(ProcessWord(b, raw_data[i]), raw_data, i + 1)

\* The variables of a call of build_hits at its return.
build_hits(s, raw_data) == Loop(EnterBuildHits(s), raw_data, 1)

\* A return of the buffer as it was allocated: hits[:max_hits_per_chunk].
ReturnedHits_FirstBuffer(b) ==
    SubSeq(b.hits, 1, IF Len(b.hits) < b.max_hits_per_chunk
                      THEN Len(b.hits) ELSE b.max_hits_per_chunk)

\* hits[:hit_index]
ReturnedHits(b) ==
    SubSeq(b.hits, 1, IF Len(b.hits) < b.hits_shape THEN Len(b.hits) ELSE b.hits_shape)

(***************************************************************************)
(* RawDataInterpreter                                                      *)
(***************************************************************************)
\* What the memory behind the arrays may hold when they are allocated: one
\* cell per array.
Garbage ==
    {[m26_data_loss |-> FALSE, word_index |-> 0, frame_length |-> 0,
      n_words |-> 0, row |-> 0, event_status |-> 0,
      frame_id |-> <<0, 0>>, m26_timestamps |-> <<0, 0>>],
     [m26_data_loss |-> FALSE, word_index |-> 6, frame_length |-> 4,
      n_words |-> 0, row |-> 700, event_status |-> OrBit(DATA_ERROR, NO_HIT),
      frame_id |-> <<1, 2>>, m26_timestamps |-> <<3, 4>>],
     [m26_data_loss |-> TRUE, word_index |-> 0, frame_length |-> 0,
      n_words |-> 0, row |-> 0, event_status |-> 0,
      frame_id |-> <<0, 0>>, m26_timestamps |-> <<0, 0>>]}

\* RawDataInterpreter.__init__ and reset: the fields after construction, the
\* memory behind the arrays holding g.
reset(max_hits_per_chunk, trigger_data_format, g) ==
    [frame_id            |-> [i \in 0..NPlanes + 1 |->
                                 IF i <= NPlanes THEN <<0, 0>> ELSE g.frame_id],
     last_frame_id       |-> <<0, 0>>,
     frame_length        |-> [i \in 0..NPlanes |->
                                 IF i < NPlanes THEN -1 ELSE g.frame_length],
     m26_data_loss       |-> [i \in 0..NPlanes |->
                                 IF i < NPlanes THEN FALSE ELSE g.m26_data_loss],
     word_index          |-> [i \in 0..NPlanes |->
                                 IF i < NPlanes THEN 0 ELSE g.word_index],
     m26_timestamps      |-> [i \in 0..NPlanes |->
                                 IF i < NPlanes THEN <<0, 0>> ELSE g.m26_timestamps],
     trigger_timestamp   |-> <<0, 0>>,
     last_m26_timestamps |-> <<0, 0>>,
     n_words             |-> [i \in 0..NPlanes |->
                                 IF i < NPlanes THEN 0 ELSE g.n_words],
     row                 |-> [i \in 0..NPlanes |->
                                 IF i < NPlanes THEN -1 ELSE g.row],
     event_status        |-> [i \in 0..NPlanes + 1 |->
                                 IF i <= NPlanes THEN 0 ELSE g.event_status],
     trigger_number      |-> -1,
     max_hits_per_chunk  |-> max_hits_per_chunk,
     trigger_data_format |-> trigger_data_format]

(***************************************************************************)
(* Raw data the model feeds                                                *)
(***************************************************************************)
\* A Mimosa26 word of a plane: flags 1 = frame start, 2 = data loss.
M26(plane, flags, payload) == <<\h2000 + plane * 16 + flags, payload>>

\* A TLU word with a 15 bit time stamp and a 16 bit trigger number.
Tlu(timestamp, number) == <<\h8000 + timestamp, number>>

RowPayload(r, n) == r * 16 + n
ColPayload(c, k) == c * 4 + k

\* The six words that precede the pixel words of a frame.
Header(plane, ts_low, ts_high, id_low, id_high, length) ==
    <<M26(plane, 1, ts_low), M26(plane, 0, ts_high), M26(plane, 0, id_low),
      M26(plane, 0, id_high), M26(plane, 0, length), M26(plane, 0, length)>>

Trailer(plane) == <<M26(plane, 0, \hAA50), M26(plane, 0, \hAA50 + plane)>>

\* A row word followed by one column word.
Pixels(plane, r, c, k) ==
    <<M26(plane, 0, RowPayload(r, 1)), M26(plane, 0, ColPayload(c, k))>>

\* Frames of a plane up to their first hit, without trailer:
\* FrameA is the first frame; FrameHigh follows it with a smaller upper half
\* of the time stamp.
FrameA(plane) == Header(plane, \h5555, \h5550 + plane, 1, 0, 1) \o Pixels(plane, 50, 100, 0)
FrameHigh(plane) == Header(plane, \h5555, 1, 2, 0, 1) \o Pixels(plane, 50, 100, 0)

\* The single words.
Words ==
    {M26(1, 1, \h5555), M26(1, 2, 0), M26(1, 3, \h5555)}
    \cup {M26(1, 0, x) : x \in {0, 1, \hAA50, \hAA51, \hAA00,
                                RowPayload(50, 1), RowPayload(577, 1),
                                \h8000 + RowPayload(50, 1),
                                ColPayload(100, 0), ColPayload(100, 2),
                                ColPayload(1151, 1), ColPayload(1152, 0)}}
    \cup {M26(2, 1, \h5555), M26(2, 0, RowPayload(50, 1)),
          M26(2, 0, ColPayload(100, 0))}
    \cup {M26(7, 0, ColPayload(100, 1))}
    \cup {Tlu(0, 1), Tlu(0, 2), Tlu(0, 3), Tlu(0, 0), Tlu(9, 65535),
          Tlu(\h7FFF, 5)}
    \cup {<<\h1000, 0>>}

\* Sequences of more than one word.
Blocks ==
    {\* headers, alone and with a first row word
     Header(1, \h5555, \h5551, 1, 0, 1),
     Header(2, \h5555, \h5552, 1, 0, 1),
     Header(1, \h5555, \h5551, 1, 0, 1) \o <<M26(1, 0, RowPayload(50, 1))>>,
     Header(1, \h5555, \h5551, 1, 0, 1) \o <<M26(1, 0, 0)>>,
     Header(1, \h5555, \h5551, 2, 0, 2) \o <<M26(1, 0, RowPayload(577, 2))>>,
     \* pixel words and trailers
     Pixels(1, 50, 100, 0),
     Pixels(1, 576, 100, 0),
     Pixels(2, 50, 100, 0),
     Trailer(1),
     \* frames
     FrameA(1),
     FrameHigh(1),
     FrameA(2),
     FrameA(0),
     FrameA(1) \o Trailer(1),
     FrameA(1) \o <<M26(1, 0, \hAA00), M26(1, 2, 0)>>,
     FrameA(1) \o <<M26(1, 0, \hAA00), M26(1, 0, \hAA00), M26(1, 0, \hAA50)>>,
     Header(1, \h5555, \h5551, 1, 0, 0) \o Trailer(1),
     Header(2, \h5555, \h5552, 1, 2, 2)
         \o Pixels(2, 7, 100, 3) \o Pixels(2, 575, 1148, 3) \o Trailer(2),
     Header(2, \h5555, 2, 2, 0, 1) \o FrameA(1) \o Pixels(2, 50, 100, 0),
     \* the words of the single hit scenario with the upper halves 0x2001
     <<<<\h2001, \h5555>>, <<\h2001, \h5551>>, <<\h2001, 1>>, <<\h2001, 0>>,
       <<\h2001, 1>>, <<\h2001, 1>>, <<\h2001, \h0320>>, <<\h2001, \h0190>>,
       <<\h2001, \hAA50>>, <<\h2001, \hAA51>>>>,
     \* two frame starts of plane 1, and a third: the time stamp of the last
     \* frame becomes 0x55515555, then 0xffffffff
     <<M26(1, 1, \h5555), M26(1, 0, \h5551), M26(1, 1, \hFFFF), M26(1, 0, \hFFFF)>>,
     <<M26(1, 1, \h5555), M26(1, 0, \h5551), M26(1, 1, \hFFFF), M26(1, 0, \hFFFF),
       M26(1, 1, 0)>>,
     \* triggers
     <<Tlu(0, 1), Tlu(0, 2)>>,
     <<Tlu(0, 1), Tlu(0, 2), Tlu(0, 3)>>,
     <<Tlu(0, 1), Tlu(0, 3), Tlu(0, 2)>>,
     <<Tlu(0, 1), Tlu(0, 3), M26(1, 1, \h5555), Tlu(0, 2), Tlu(0, 0), Tlu(0, 4)>>}

\* The chunks of raw data a call may be given.
Chunks == {<<w>> : w \in Words} \cup Blocks

\* Some word of raw_data indexes behind the end of the per plane arrays.
ReadsBehind(raw_data) ==
    \E i \in 1..Len(raw_data) :
        is_mimosa_data(raw_data[i]) /\ get_plane_number(raw_data[i]) > NPlanes

(***************************************************************************)
(* State                                                                   *)
(***************************************************************************)
VARIABLES
    self,      \* the fields of the RawDataInterpreter object
    prev,      \* the fields at the start of the last call
    heap,      \* what the memory behind the arrays held at allocation, once read
    raw_data,  \* the argument of the last call of interpret_raw_data
    hits,      \* the hits the last call returned
    stream,    \* every word given since construction or reset, in order
    returned,  \* every hit returned since construction or reset, in order
    ncalls     \* calls of interpret_raw_data so far

vars == <<self, prev, heap, raw_data, hits, stream, returned, ncalls>>

\* heap while the memory behind the arrays has not been read since allocation;
\* <<g>> once it was read and held g.
Unread == <<>>

\* The interpreter object with the memory behind its arrays holding g.
Allocated(s, g) ==
    [s EXCEPT !.frame_id[NPlanes + 1] = g.frame_id,
              !.frame_length[NPlanes] = g.frame_length,
              !.m26_data_loss[NPlanes] = g.m26_data_loss,
              !.word_index[NPlanes] = g.word_index,
              !.m26_timestamps[NPlanes] = g.m26_timestamps,
              !.n_words[NPlanes] = g.n_words,
              !.row[NPlanes] = g.row,
              !.event_status[NPlanes + 1] = g.event_status]

\* A freshly constructed interpreter.
Fresh(max_hits_per_chunk, trigger_data_format) ==
    reset(max_hits_per_chunk, trigger_data_format, CHOOSE g \in Garbage : TRUE)

Init ==
    /\ self = Fresh(MaxHitsPerChunk, 2)
    /\ prev = Fresh(MaxHitsPerChunk, 2)
    /\ heap = Unread
    /\ raw_data = <<>>
    /\ hits = <<>>
    /\ stream = <<>>
    /\ returned = <<>>
    /\ ncalls = 0

\* RawDataInterpreter.interpret_raw_data(chunk).  The memory behind the
\* arrays takes its content when a word first reads it.
interpret_raw_data(chunk) ==
    /\ ncalls < MaxCalls
    /\ \E g \in (IF heap = Unread /\ ReadsBehind(chunk) THEN Garbage ELSE {0}) :
        LET first == heap = Unread /\ ReadsBehind(chunk)
            s     == IF first THEN Allocated(self, g) ELSE self
        IN  \E b \in {build_hits(s, chunk)} :
                /\ prev' = s
                /\ self' = [f \in SelfFields |-> b[f]]
                /\ hits' = ReturnedHits(b)
                /\ returned' = returned \o ReturnedHits(b)
                /\ heap' = IF first THEN <<g>> ELSE heap
    /\ raw_data' = chunk
    /\ stream' = stream \o chunk
    /\ ncalls' = ncalls + 1

\* RawDataInterpreter.reset(): the arrays are allocated anew.
Reset ==
    /\ ncalls > 0
    /\ self' = Fresh(self.max_hits_per_chunk, self.trigger_data_format)
    /\ heap' = Unread
    /\ prev' = Fresh(self.max_hits_per_chunk, self.trigger_data_format)
    /\ raw_data' = <<>>
    /\ hits' = <<>>
    /\ stream' = <<>>
    /\ returned' = <<>>
    /\ UNCHANGED ncalls

Next ==
    \/ \E chunk \in Chunks : interpret_raw_data(chunk)
    \/ Reset

Spec == Init /\ [][Next]_vars

(***************************************************************************)
(* Every trigger data format                                               *)
(***************************************************************************)
\* The trigger data formats the docstring of build_hits lists.
TriggerDataFormats == {0, 1, 2}

\* RawDataInterpreter(trigger_data_format=f): __init__ stores the format and
\* calls reset, whatever the format is.
InitFormat ==
    \E f \in TriggerDataFormats :
        /\ self = Fresh(MaxHitsPerChunk, f)
        /\ prev = Fresh(MaxHitsPerChunk, f)
        /\ heap = Unread
        /\ raw_data = <<>>
        /\ hits = <<>>
        /\ stream = <<>>
        /\ returned = <<>>
        /\ ncalls = 0

SpecFormat == InitFormat /\ [][Next]_vars

(***************************************************************************)
(* Every size of the hit buffer                                            *)
(***************************************************************************)
\* The values of max_hits_per_chunk the interpreter is constructed with.
BufferSizes == 1..(MaxHitsPerChunk + 2)

\* RawDataInterpreter(max_hits_per_chunk=m).
InitBuffer ==
    \E m \in BufferSizes :
        /\ self = Fresh(m, 2)
        /\ prev = Fresh(m, 2)
        /\ heap = Unread
        /\ raw_data = <<>>
        /\ hits = <<>>
        /\ stream = <<>>
        /\ returned = <<>>
        /\ ncalls = 0

\* Calls with more than one word each.
NextBuffer == \E chunk \in Blocks : interpret_raw_data(chunk)

SpecBuffer == InitBuffer /\ [][NextBuffer]_vars

(***************************************************************************)
(* Triggers behind a frame of plane 1                                      *)
(***************************************************************************)
\* Halves of the time stamps and frame numbers of the frames of plane 1.
AnchorLow == {0, \h5555, \h7FFF, \h8000, \hFFFF}
AnchorHigh == {0, \h5551, \hFFFF}
AnchorFrames == {<<0, 1>>, <<\hFFFF, \hFFFA>>, <<\hFFFF, \hFFFF>>}

\* The head of a frame of plane 1 with time stamp a and frame number f, and
\* the frame start of the next: the second frame start makes a the time
\* stamp and f the number of the last frame.
AnchorWords(a, f) ==
    <<M26(1, 1, a[2]), M26(1, 0, a[1]), M26(1, 0, f[2]), M26(1, 0, f[1]),
      M26(1, 1, a[2])>>

\* The trigger words that follow.
TriggerChunks ==
    {<<Tlu(t, 1)>> : t \in {0, 1, \h5554, \h5555, \h5556, \h7FFF}}
    \cup {<<Tlu(0, 1), Tlu(\h7FFF, 2)>>}

\* The state after a first call with the words AnchorWords(a, f).
InitAnchor ==
    \E ah \in AnchorHigh, al \in AnchorLow, f \in AnchorFrames :
        LET chunk == AnchorWords(<<ah, al>>, f)
            b     == build_hits(Fresh(MaxHitsPerChunk, 2), chunk)
        IN  /\ prev = Fresh(MaxHitsPerChunk, 2)
            /\ self = [x \in SelfFields |-> b[x]]
            /\ heap = Unread
            /\ raw_data = chunk
            /\ hits = ReturnedHits(b)
            /\ stream = chunk
            /\ returned = ReturnedHits(b)
            /\ ncalls = 1

NextAnchor == \E chunk \in TriggerChunks : interpret_raw_data(chunk)

SpecAnchor == InitAnchor /\ [][NextAnchor]_vars

(***************************************************************************)
(* Definitions the properties share                                        *)
(***************************************************************************)
\* The variables of the last call of build_hits before and after the loop
\* body ran for word i of its raw data.
StepBefore(i) == Loop(EnterBuildHits(prev), SubSeq(raw_data, 1, i - 1), 1)
StepAfter(i) == ProcessWord(StepBefore(i), raw_data[i])

\* The variables of the last call of build_hits before its first word and
\* after each word: StepTrace[i] is StepBefore(i), StepTrace[i + 1] is
\* StepAfter(i).
RECURSIVE Trace(_, _, _)
Trace(b, words, i) ==
    IF i > Len(words)
    THEN <<b>>
    ELSE <<b>> \o Trace(ProcessWord(b, words[i]), words, i + 1)

StepTrace == Trace(EnterBuildHits(prev), raw_data, 1)

\* The hits stored between the variables b and a of a call.
NewHits(b, a) == SubSeq(a.hits, Len(b.hits) + 1, Len(a.hits))

\* The hits the loop body stored for word i of the last call.
StepHits(i) == NewHits(StepBefore(i), StepAfter(i))

IsPrefix(s, t) == Len(s) <= Len(t) /\ SubSeq(t, 1, Len(s)) = s

IsTluHit(hit) == hit.plane = TluPlane
IsM26Hit(hit) == hit.plane \in 1..NPlanes

\* The trigger words of the stream and the hits of TLU words, in order.
TriggerWords == SelectSeq(stream, is_trigger_word)
TluHits == SelectSeq(returned, IsTluHit)

\* A fresh interpreter given the whole stream in a single call: the
\* variables of build_hits at its return.
SingleCall ==
    LET s == Fresh(self.max_hits_per_chunk, self.trigger_data_format)
    IN  build_hits(IF heap = Unread THEN s ELSE Allocated(s, heap[1]), stream)

(***************************************************************************)
(* C1: chunking invariance.  The hits returned by the calls made so far,   *)
(* concatenated, are the hits a fresh interpreter returns for the          *)
(* concatenation of their chunks in a single call.                         *)
(***************************************************************************)
C1_ChunkingInvariance == returned = ReturnedHits(SingleCall)

(***************************************************************************)
(* C2: well-formed frame decoding.  When the stream given to a fresh       *)
(* interpreter is one well-formed frame of a plane p in 1..6, every hit    *)
(* has plane p, the frame number and the time stamp of the header words,   *)
(* the row of its group's row word and event_status 0; a frame of length 0 *)
(* gives no hit and leaves no status bit set.                              *)
(***************************************************************************)
\* The words i..last of s are complete groups: a row word (row < 576, no
\* overflow bit) and the column words it announces (column + hits < 1152).
RECURSIVE GroupsFill(_, _, _)
GroupsFill(s, i, last) ==
    IF i > last
    THEN TRUE
    ELSE LET n == s[i][2] % 16
         IN  /\ (s[i][2] \div 16) % 2048 < 576
             /\ s[i][2] < \h8000
             /\ i + n <= last
             /\ \A j \in (i + 1)..(i + n) :
                    ((s[j][2] \div 4) % 2048) + (s[j][2] % 4) < 1152
             /\ GroupsFill(s, i + n + 1, last)

\* s is a frame as the claim describes it.
WellFormedFrame(s) ==
    /\ Len(s) >= 8
    /\ LET p == (s[1][1] \div 16) % 16
           L == 2 * s[5][2]
       IN  /\ p \in 1..6
           /\ s[1][1] = \h2000 + 16 * p + 1
           /\ s[5][2] = s[6][2]
           /\ Len(s) = 8 + L
           /\ \A i \in 2..Len(s) : s[i][1] = \h2000 + 16 * p
           /\ s[7 + L][2] = \hAA50
           /\ s[8 + L][2] = \hAA50 + p
           /\ GroupsFill(s, 7, 6 + L)

\* The row of every hit of the column words j..last of a group of row r.
RECURSIVE GroupRows(_, _, _, _)
GroupRows(s, r, j, last) ==
    IF j > last
    THEN <<>>
    ELSE [x \in 1..((s[j][2] % 4) + 1) |-> r] \o GroupRows(s, r, j + 1, last)

\* The row of every hit of the groups in the words i..last of s.
RECURSIVE FrameRows(_, _, _)
FrameRows(s, i, last) ==
    IF i > last
    THEN <<>>
    ELSE LET n == s[i][2] % 16
         IN  GroupRows(s, (s[i][2] \div 16) % 2048, i + 1, i + n)
                 \o FrameRows(s, i + n + 1, last)

C2_WellFormedFrame ==
    WellFormedFrame(stream) =>
        LET p    == (stream[1][1] \div 16) % 16
            L    == 2 * stream[5][2]
            rows == FrameRows(stream, 7, 6 + L)
        IN  /\ Len(returned) = Len(rows)
            /\ \A i \in 1..Len(returned) :
                /\ returned[i].plane = p
                /\ returned[i].frame = <<stream[4][2], stream[3][2]>>
                /\ returned[i].time_stamp = <<stream[2][2], stream[1][2]>>
                /\ returned[i].row = rows[i]
                /\ returned[i].event_status = 0
            /\ L = 0 =>
                /\ returned = <<>>
                /\ \A i \in 0..NPlanes : self.event_status[i] = 0

\* A well-formed frame that has a hit was given in two calls.
C2_Witness ==
    /\ WellFormedFrame(stream)
    /\ Len(returned) >= 1
    /\ ncalls = 2

(***************************************************************************)
(* C3: group expansion.  A column word (column c, hits field k) of a plane *)
(* p in 1..6 that is processed in a data slot with n_words[p] > 0 and the  *)
(* plane not in loss mode appends exactly k + 1 hits, with the columns     *)
(* c .. c + k in this order and all other fields identical.                *)
(***************************************************************************)
\* Word w is a column word in a data slot of its plane when the loop body
\* runs for it with the variables b.
ColumnSlot(b, w) ==
    /\ w[1] \div 256 = \h20
    /\ (w[1] \div 16) % 16 \in 1..6
    /\ w[1] % 4 = 0
    /\ LET p == ((w[1] \div 16) % 16) - 1
       IN  /\ ~b.m26_data_loss[p]
           /\ b.n_words[p] > 0
           /\ b.word_index[p] + 1 >= 6
           /\ b.word_index[p] + 1 <= 5 + b.frame_length[p]

C3_GroupExpansion ==
    \A tr \in {StepTrace} :
        \A i \in 1..Len(raw_data) :
            ColumnSlot(tr[i], raw_data[i]) =>
                LET b   == tr[i]
                    a   == tr[i + 1]
                    w   == raw_data[i]
                    k   == w[2] % 4
                    c   == (w[2] \div 4) % 2048
                    new == NewHits(b, a)
                IN  /\ IsPrefix(b.hits, a.hits)
                    /\ Len(new) = k + 1
                    /\ \A j \in 1..Len(new) :
                        /\ new[j].column = c + j - 1
                        /\ new[j].plane = new[1].plane
                        /\ new[j].frame = new[1].frame
                        /\ new[j].time_stamp = new[1].time_stamp
                        /\ new[j].trigger_number = new[1].trigger_number
                        /\ new[j].row = new[1].row
                        /\ new[j].event_status = new[1].event_status

\* The last call was given a single column word with hits field 2 and
\* returned three hits.
C3_Witness ==
    /\ Len(raw_data) = 1
    /\ ColumnSlot(StepBefore(1), raw_data[1])
    /\ raw_data[1][2] % 4 = 2
    /\ Len(hits) = 3

(***************************************************************************)
(* C4: every TLU word appends exactly one hit, with plane 255, column 0    *)
(* and the lower 16 bits of the word as trigger number, and the hits       *)
(* returned are in the order of the words that produced them: the loop     *)
(* body only appends, and the hits of TLU words match the trigger words    *)
(* of the stream one to one, in order.                                     *)
(***************************************************************************)
C4_TriggerHit ==
    /\ \A tr \in {StepTrace} :
        /\ \A i \in 1..Len(raw_data) :
            /\ IsPrefix(tr[i].hits, tr[i + 1].hits)
            /\ raw_data[i][1] >= \h8000 =>
                /\ Len(NewHits(tr[i], tr[i + 1])) = 1
                /\ NewHits(tr[i], tr[i + 1])[1].plane = 255
                /\ NewHits(tr[i], tr[i + 1])[1].column = 0
                /\ NewHits(tr[i], tr[i + 1])[1].trigger_number = raw_data[i][2]
        /\ raw_data # <<>> => hits = tr[Len(raw_data) + 1].hits
    /\ Len(TluHits) = Len(TriggerWords)
    /\ \A n \in 1..Len(TluHits) : TluHits[n].trigger_number = TriggerWords[n][2]

\* A TLU word was processed right after a hit of a plane, and another one
\* before or after it.
C4_Witness ==
    \E i \in 1..Len(returned) :
        /\ i > 1
        /\ returned[i].plane = 255
        /\ returned[i - 1].plane \in 1..6
        /\ Len(TluHits) >= 2

(***************************************************************************)
(* C5: plane preservation.  Whatever the plane nibble of the Mimosa26      *)
(* words, every hit has a plane in 1..6 or the plane 255, and the plane    *)
(* 255 exactly when a TLU word produced it.                                *)
(***************************************************************************)
C5_PlanePreservation ==
    /\ \A i \in 1..Len(returned) : returned[i].plane \in (1..6) \cup {255}
    /\ \A i \in 1..Len(raw_data) :
        \A j \in 1..Len(StepHits(i)) :
            StepHits(i)[j].plane = 255 <=> raw_data[i][1] >= \h8000

(***************************************************************************)
(* C6: every hit of a plane 1..6 with a column >= 1152 carries COL_ERROR   *)
(* (0x1000) in its event_status.                                           *)
(***************************************************************************)
C6_ColumnError ==
    \A i \in 1..Len(returned) :
        (returned[i].plane \in 1..6 /\ returned[i].column >= 1152) =>
            (returned[i].event_status \div \h1000) % 2 = 1

(***************************************************************************)
(* C7: every hit of a plane 1..6 with a row >= 576 carries ROW_ERROR       *)
(* (0x2000) in its event_status.                                           *)
(***************************************************************************)
C7_RowError ==
    \A i \in 1..Len(returned) :
        (returned[i].plane \in 1..6 /\ returned[i].row >= 576) =>
            (returned[i].event_status \div \h2000) % 2 = 1

(***************************************************************************)
(* C8: when every trigger word of the stream carries the number of the     *)
(* trigger word before it plus 1 modulo 2^16, no hit of a TLU word has     *)
(* TRG_ERROR (0x0040) set.                                                 *)
(***************************************************************************)
\* Trigger word n of the stream continues the numbering of the one before.
Consecutive(n) == TriggerWords[n][2] = (TriggerWords[n - 1][2] + 1) % 65536

C8_CleanTriggers ==
    (\A n \in 2..Len(TriggerWords) : Consecutive(n)) =>
        \A n \in 1..Len(TluHits) : (TluHits[n].event_status \div \h0040) % 2 = 0

(***************************************************************************)
(* C9: a trigger word whose number is not the number of the trigger word   *)
(* before it plus 1 modulo 2^16 gets TRG_ERROR (0x0040) on its hit.        *)
(***************************************************************************)
C9_TriggerGap ==
    \A n \in 2..Len(TriggerWords) :
        (n <= Len(TluHits) /\ ~Consecutive(n)) =>
            (TluHits[n].event_status \div \h0040) % 2 = 1

(***************************************************************************)
(* C10: time stamp monotonicity.  Between two consecutive hits of a plane  *)
(* p in 1..6 the time stamp does not decrease, unless the later hit        *)
(* carries TS_OVERFLOW (0x8000).                                           *)
(***************************************************************************)
\* Hits i < j are consecutive hits of one plane in 1..6.
ConsecutiveOfPlane(i, j) ==
    /\ i < j
    /\ returned[i].plane \in 1..6
    /\ returned[j].plane = returned[i].plane
    /\ \A m \in (i + 1)..(j - 1) : returned[m].plane # returned[i].plane

C10_TimestampMonotonic ==
    \A i, j \in 1..Len(returned) :
        ConsecutiveOfPlane(i, j) =>
            \/ returned[i].time_stamp[1] < returned[j].time_stamp[1]
            \/ /\ returned[i].time_stamp[1] = returned[j].time_stamp[1]
               /\ returned[i].time_stamp[2] <= returned[j].time_stamp[2]
            \/ (returned[j].event_status \div \h8000) % 2 = 1

(***************************************************************************)
(* C11: frame alignment.  The hit of a TLU word has row < 4608,            *)
(* row = ((time_stamp - A) mod 2^32) mod 4608 and                          *)
(* frame = (F + ((time_stamp - A) mod 2^32) div 4608) mod 2^32, A and F    *)
(* being last_m26_timestamps and last_frame_id when the word is processed. *)
(***************************************************************************)
\* (a - b) mod 2^32 for 32 bit values given as <<upper, lower>> halves.
Sub32(a, b) ==
    LET borrow == IF a[2] < b[2] THEN 1 ELSE 0
    IN  <<(a[1] - b[1] - borrow + W16) % W16, (a[2] - b[2] + W16) % W16>>

\* d mod n and d div n for a value d given as <<upper, lower>> halves.
PairMod(d, n) == ((d[1] % n) * (W16 % n) + d[2]) % n
PairDiv(d, n) == d[1] * (W16 \div n) + (d[1] * (W16 % n) + d[2]) \div n

\* Word i of the last call is a TLU word.
TriggerStep(i) == raw_data[i][1] >= \h8000

C11_FrameAlignment ==
    \A i \in 1..Len(raw_data) :
        TriggerStep(i) =>
            LET A   == StepBefore(i).last_m26_timestamps
                F   == StepBefore(i).last_frame_id
                hit == StepHits(i)[1]
                d   == Sub32(hit.time_stamp, A)
            IN  /\ hit.row < 4608
                /\ hit.row = PairMod(d, 4608)
                /\ hit.frame = Add32(F, PairDiv(d, 4608))

\* A trigger 0x2aab after the time stamp 0x55515555 of the last frame: two
\* frames and 1707 cycles later.
C11_Witness ==
    /\ Len(hits) = 1
    /\ Len(raw_data) = 1
    /\ TriggerStep(1)
    /\ StepBefore(1).last_m26_timestamps = <<\h5551, \h5555>>
    /\ hits[1].row = 1707
    /\ hits[1].frame = Add32(StepBefore(1).last_frame_id, 2)

(***************************************************************************)
(* C12: the trigger time stamp is at most one 15 bit wrap behind the       *)
(* anchor.  For every TLU word, delta = trigger time stamp -               *)
(* last_m26_timestamps satisfies 0 <= delta < 2^15, and the frame of the   *)
(* hit is last_frame_id plus at most 7 (modulo 2^32).                      *)
(***************************************************************************)
C12_DeltaRange ==
    \A i \in 1..Len(raw_data) :
        TriggerStep(i) =>
            LET A     == StepBefore(i).last_m26_timestamps
                F     == StepBefore(i).last_frame_id
                ts    == StepAfter(i).trigger_timestamp
                hi    == ts[1] - A[1]
            IN  /\ hi \in {0, 1}
                /\ hi * W16 + ts[2] - A[2] >= 0
                /\ hi * W16 + ts[2] - A[2] < 32768
                /\ \E q \in 0..7 : StepHits(i)[1].frame = Add32(F, q)

\* A trigger 0x7fff cycles behind the last frame, in its frame 7.
C12_Witness ==
    /\ Len(raw_data) = 1
    /\ TriggerStep(1)
    /\ LET A  == StepBefore(1).last_m26_timestamps
           ts == self.trigger_timestamp
       IN  /\ ts[1] = A[1]
           /\ ts[2] - A[2] = 32767
           /\ hits[1].frame = Add32(StepBefore(1).last_frame_id, 7)

(***************************************************************************)
(* C13: the anchor of a trigger.  As stated: when a TLU word is processed  *)
(* after plane 1 received a frame start word and the header high word      *)
(* behind it, last_m26_timestamps is the time stamp of that header, the    *)
(* current m26_timestamps[0].                                              *)
(***************************************************************************)
\* Position in the stream of word i of the last call.
StreamIndex(i) == Len(stream) - Len(raw_data) + i

\* Word w is a frame start word of plane 1.
PlaneOneStart(w) ==
    /\ w[1] \div 256 = \h20
    /\ (w[1] \div 16) % 16 = 1
    /\ w[1] % 4 = 1

\* The positions before n of the frame start words of plane 1.
StartsBefore(n) == {j \in 1..(n - 1) : PlaneOneStart(stream[j])}

C13_AnchorIsCurrentHeader ==
    \A i \in 1..Len(raw_data) :
        (/\ TriggerStep(i)
         /\ StartsBefore(StreamIndex(i)) # {}
         /\ StepBefore(i).word_index[0] >= 1) =>
            StepBefore(i).last_m26_timestamps = StepBefore(i).m26_timestamps[0]

(***************************************************************************)
(* C13, amended: when a TLU word is processed, last_m26_timestamps is the  *)
(* value m26_timestamps[0] had just before the most recent frame start     *)
(* word of plane 1 was processed: the time stamp of the frame before the   *)
(* current one; it is 0 when plane 1 had no frame start word.              *)
(***************************************************************************)
\* The variables of build_hits after the first n words of the stream.
StreamState(n) ==
    LET s == Fresh(self.max_hits_per_chunk, self.trigger_data_format)
    IN  Loop(EnterBuildHits(IF heap = Unread THEN s ELSE Allocated(s, heap[1])),
             SubSeq(stream, 1, n), 1)

\* m26_timestamps[0] before the last of the frame starts at the positions S.
TimestampBeforeStart(S) ==
    LET last == CHOOSE j \in S : \A k \in S : k <= j
    IN  StreamState(last - 1).m26_timestamps[0]

C13_AnchorIsPreviousHeader ==
    \A i \in 1..Len(raw_data) :
        TriggerStep(i) =>
            LET S == StartsBefore(StreamIndex(i))
            IN  StepBefore(i).last_m26_timestamps =
                    IF S = {} THEN <<0, 0>> ELSE TimestampBeforeStart(S)

\* A TLU word behind two headers of plane 1: the time stamp of the first is
\* its anchor, the time stamp of the second is the current one.
C13_Witness ==
    /\ Len(raw_data) = 1
    /\ TriggerStep(1)
    /\ StepBefore(1).word_index[0] >= 1
    /\ StepBefore(1).last_m26_timestamps = <<\h5551, \h5555>>
    /\ StepBefore(1).m26_timestamps[0] = <<\hFFFF, \hFFFF>>
    /\ Len(hits) = 1

(***************************************************************************)
(* C14: trailer high mismatch.  When the stream given to a fresh           *)
(* interpreter is a frame of a plane p in 1..6 whose word at position      *)
(* 5 + L + 1 is not 0xAA50, every hit of the frame carries                 *)
(* TRAILER_H_ERROR (0x0100).                                               *)
(***************************************************************************)
\* s is a frame of a plane up to the word in the place of trailer 0, which
\* is not 0xAA50, and at most one word more.
FrameWithBadTrailer(s) ==
    /\ Len(s) >= 7
    /\ LET p == (s[1][1] \div 16) % 16
           L == 2 * s[5][2]
       IN  /\ p \in 1..6
           /\ s[1][1] = \h2000 + 16 * p + 1
           /\ s[5][2] = s[6][2]
           /\ Len(s) \in {7 + L, 8 + L}
           /\ \A i \in 2..(7 + L) : s[i][1] = \h2000 + 16 * p
           /\ GroupsFill(s, 7, 6 + L)
           /\ s[7 + L][2] # \hAA50

C14_TrailerHighError ==
    FrameWithBadTrailer(stream) =>
        \A i \in 1..Len(returned) :
            (returned[i].event_status \div \h0100) % 2 = 1

(***************************************************************************)
(* C15: loss mode.  While m26_data_loss[p] is set, a word of plane p + 1   *)
(* without the frame start flag stores no hit and changes none of          *)
(* word_index[p], frame_length[p], n_words[p], row[p], frame_id[p + 1],    *)
(* m26_timestamps[p] and event_status[p + 1]; the plane stays in loss      *)
(* mode.                                                                   *)
(***************************************************************************)
\* Word w is a word of plane p + 1 (p in 0..5) without the frame start flag.
PlainWordOf(w, p) ==
    /\ w[1] \div 256 = \h20
    /\ (w[1] \div 16) % 16 = p + 1
    /\ w[1] % 2 = 0

C16_LossRecovery ==
    (/\ WellFormedFrame(raw_data)
     /\ prev.m26_data_loss[((raw_data[1][1] \div 16) % 16) - 1]) =>
        LET p    == (raw_data[1][1] \div 16) % 16
            rows == FrameRows(raw_data, 7, 6 + 2 * raw_data[5][2])
        IN  /\ Len(hits) = Len(rows)
            /\ \A i \in 1..Len(hits) :
                /\ hits[i].plane = p
                /\ hits[i].row = rows[i]
                /\ hits[i].event_status = 0

(***************************************************************************)
(* C17: a trigger data format other than 2 is fatal at construction, so   *)
(* that no hit is ever returned by an interpreter with such a format.      *)
(***************************************************************************)
C17_FormatFatal == self.trigger_data_format # 2 => returned = <<>>

(***************************************************************************)
(* C18: the growth of the hit buffer is transparent.  Whatever             *)
(* max_hits_per_chunk >= 1 the interpreter has, a call returns the hits a  *)
(* call with a buffer that never has to grow returns from the same state   *)
(* for the same raw data: no hit is lost, overwritten or reordered, and    *)
(* one hit is returned for every hit stored.                               *)
(***************************************************************************)
\* The last call with a buffer of four hits per word, which never grows.
WideBufferCall ==
    build_hits([prev EXCEPT !.max_hits_per_chunk = 4 * Len(raw_data) + 1], raw_data)

C18_BufferGrowth ==
    \A wide \in {WideBufferCall} :
        /\ Len(wide.hits) < wide.hits_shape
        /\ wide.hits_shape = 4 * Len(raw_data) + 1
        /\ hits = wide.hits
        /\ \A f \in SelfFields \ {"max_hits_per_chunk"} : self[f] = wide[f]

\* A call with max_hits_per_chunk = 2 has returned eight hits: the buffer
\* has grown three times and is full.
C18_Witness ==
    /\ self.max_hits_per_chunk = 2
    /\ Len(hits) = 8
    /\ \A i \in 1..8 : hits[i].column = (IF i <= 4 THEN 99 ELSE 1143) + i

(***************************************************************************)
(* C19: the trigger number of the hit of a Mimosa26 word is the 16 bit     *)
(* number of the last trigger word before it in the stream, also when      *)
(* that word came in an earlier call, and 0 when there is none.            *)
(***************************************************************************)
\* The positions before n of the trigger words of the stream.
TriggersBefore(n) == {j \in 1..(n - 1) : stream[j][1] >= \h8000}

\* The number of the last of the trigger words at the positions T.
LastNumber(T) == stream[CHOOSE j \in T : \A k \in T : k <= j][2]

C19_HitTriggerNumber ==
    \A tr \in {StepTrace} :
        \A i \in 1..Len(raw_data) :
            ~TriggerStep(i) =>
                \A T \in {TriggersBefore(StreamIndex(i))} :
                    \A j \in 1..Len(NewHits(tr[i], tr[i + 1])) :
                        NewHits(tr[i], tr[i + 1])[j].trigger_number =
                            IF T = {} THEN 0 ELSE LastNumber(T)

\* A hit of a plane carries the number of a trigger word of the call before.
C19_Witness ==
    /\ Len(hits) >= 1
    /\ hits[1].plane \in 1..6
    /\ hits[1].trigger_number = 5
    /\ \A i \in 1..Len(raw_data) : ~TriggerStep(i)

(***************************************************************************)
(* C20: unknown words are reported.  When a TLU word is processed while    *)
(* UNKNOWN_WORD (0x0010) is set in event_status[0], its hit carries        *)
(* UNKNOWN_WORD.                                                           *)
(***************************************************************************)
C20_UnknownWordReported ==
    \A i \in 1..Len(raw_data) :
        (TriggerStep(i) /\ (StepBefore(i).event_status[0] \div \h0010) % 2 = 1) =>
            (StepHits(i)[1].event_status \div \h0010) % 2 = 1

(***************************************************************************)
(* C21: the single hit scenario with its literal words.  As stated: a      *)
(* fresh interpreter given 0x20015555, 0x20015551, 0x20010001, 0x20010000, *)
(* 0x20010001, 0x20010001, 0x20010320, 0x20010190, 0x2001AA50, 0x2001AA51  *)
(* returns exactly one hit, with plane 1, column 100, row 50 and           *)
(* event_status 0.                                                         *)
(***************************************************************************)
\* The words of the scenario.
Scenario2Words ==
    <<<<\h2001, \h5555>>, <<\h2001, \h5551>>, <<\h2001, 1>>, <<\h2001, 0>>,
      <<\h2001, 1>>, <<\h2001, 1>>, <<\h2001, \h0320>>, <<\h2001, \h0190>>,
      <<\h2001, \hAA50>>, <<\h2001, \hAA51>>>>

C21_ScenarioOneHit ==
    stream = Scenario2Words =>
        /\ Len(returned) = 1
        /\ returned[1].plane = 1
        /\ returned[1].column = 100
        /\ returned[1].row = 50
        /\ returned[1].event_status = 0

(***************************************************************************)
(* C21, amended: a fresh interpreter given these words returns no hit.     *)
(* Each of the ten words has the frame start flag (bit 16) set and the     *)
(* plane number 0 in bits 23..20, so each one only starts a frame of the   *)
(* last plane (plane_id -1, the cell 5 of the arrays): its time stamp      *)
(* keeps the lower half 0xAA51 of the last word, and nothing else differs  *)
(* from the fresh interpreter.                                             *)
(***************************************************************************)
C21_ScenarioNoHit ==
    stream = Scenario2Words =>
        /\ returned = <<>>
        /\ self = [Fresh(self.max_hits_per_chunk, self.trigger_data_format)
                       EXCEPT !.m26_timestamps[5] = <<0, \hAA51>>]

\* The words of the scenario were given to a fresh interpreter in one call.
C21_Witness ==
    /\ stream = Scenario2Words
    /\ raw_data = Scenario2Words
    /\ ncalls = 1

(***************************************************************************)
(* C22: a frame start word resynchronises its plane.  As stated: any       *)
(* Mimosa26 word of a plane p that has the frame start flag (bit 16),      *)
(* whatever its other bits are, bit 17 included, leaves word_index[p] = 0, *)
(* frame_length[p] = -1, n_words[p] = 0 and m26_data_loss[p] cleared.      *)
(***************************************************************************)
\* Word w is a Mimosa26 word of a plane in 1..6 with the frame start flag.
FrameStartWord(w) ==
    /\ w[1] \div 256 = \h20
    /\ (w[1] \div 16) % 16 \in 1..6
    /\ w[1] % 2 = 1

\* The plane of word w is at the start of a frame in the variables a.
Resynchronised(a, w) ==
    LET p == ((w[1] \div 16) % 16) - 1
    IN  /\ a.word_index[p] = 0
        /\ a.frame_length[p] = -1
        /\ a.n_words[p] = 0
        /\ ~a.m26_data_loss[p]

C22_FrameStartResyncs ==
    \A tr \in {StepTrace} :
        \A i \in 1..Len(raw_data) :
            FrameStartWord(raw_data[i]) => Resynchronised(tr[i + 1], raw_data[i])

(***************************************************************************)
(* C22, amended: any Mimosa26 word of a plane p in 1..6 that has the frame *)
(* start flag (bit 16) and not the data loss flag (bit 17), in any state,  *)
(* loss mode included, leaves word_index[p] = 0, frame_length[p] = -1,     *)
(* n_words[p] = 0 and m26_data_loss[p] cleared; a word with both flags     *)
(* sets m26_data_loss[p] and changes nothing else.                         *)
(***************************************************************************)
C22_UnflaggedFrameStartResyncs ==
    \A tr \in {StepTrace} :
        \A i \in 1..Len(raw_data) :
            FrameStartWord(raw_data[i]) =>
                IF (raw_data[i][1] \div 2) % 2 = 0
                THEN Resynchronised(tr[i + 1], raw_data[i])
                ELSE tr[i + 1] =
                        [tr[i] EXCEPT !.m26_data_loss[((raw_data[i][1] \div 16) % 16) - 1]
                                          = TRUE]

\* A frame start word was given to plane 1 in loss mode behind the first
\* words of a frame, and the plane is at the start of a frame.
C22_Witness ==
    /\ Len(raw_data) = 1
    /\ FrameStartWord(raw_data[1])
    /\ raw_data[1][1] = \h2011
    /\ prev.m26_data_loss[0]
    /\ prev.word_index[0] > 0
    /\ prev.frame_length[0] >= 0
    /\ Resynchronised(self, raw_data[1])

(***************************************************************************)
(* C23: anomalies that enter loss mode.  As stated: when a mismatch of     *)
(* trailer 0 or trailer 1 is detected on a plane p, or the frame overruns  *)
(* (word_index[p] > 5 + frame_length[p] + 2), m26_data_loss[p] is set and  *)
(* stays set until the next frame start word of the plane.                 *)
(***************************************************************************)
\* Word w is a Mimosa26 word of a plane in 1..6 without flags, and its plane
\* is not in loss mode in the variables b: the word is counted.
CountedWord(b, w) ==
    /\ w[1] \div 256 = \h20
    /\ (w[1] \div 16) % 16 \in 1..6
    /\ w[1] % 4 = 0
    /\ ~b.m26_data_loss[((w[1] \div 16) % 16) - 1]

\* The place in its frame of a counted word w: its word index less
\* 5 + frame_length, or 0 for the words up to the word index 5.
BehindData(b, w) ==
    LET p  == ((w[1] \div 16) % 16) - 1
        wi == b.word_index[p] + 1
    IN  IF wi <= 5 THEN 0 ELSE wi - (5 + b.frame_length[p])

\* A mismatch of trailer 0 or trailer 1 is detected for the counted word w.
TrailerMismatch(b, w) ==
    \/ BehindData(b, w) = 1 /\ w[2] # \hAA50
    \/ BehindData(b, w) = 2 /\ w[2] # \hAA50 + ((w[1] \div 16) % 16)

\* The frame overruns with the counted word w.
Overrun(b, w) == BehindData(b, w) > 2

\* Loss mode of planes 1..6 is kept by every word that is not a frame start
\* word of the plane.
LossStays(b, a, w) ==
    \A p \in 0..5 :
        (b.m26_data_loss[p] /\ ~(FrameStartWord(w) /\ (w[1] \div 16) % 16 = p + 1))
            => a.m26_data_loss[p]

FillSlot(b, w) ==
    LET p == ((w[1] \div 16) % 16) - 1
    IN  /\ b.n_words[p] = 0
        /\ b.word_index[p] + 1 >= 6
        /\ b.word_index[p] + 1 = 5 + b.frame_length[p]

C24_FillWordSkip ==
    \A tr \in {StepTrace} :
        \A i \in 1..Len(raw_data) :
            (CountedWord(tr[i], raw_data[i]) /\ FillSlot(tr[i], raw_data[i])) =>
                LET p == ((raw_data[i][1] \div 16) % 16) - 1
                IN  tr[i + 1] =
                        [tr[i] EXCEPT !.word_index[p] = @ + 1,
                                      !.event_status[p + 1] = OrBit(@, UNEVEN_EVENT)]

(***************************************************************************)
(* C25: the planes are independent.  A Mimosa26 word of a plane p in 1..6  *)
(* changes nothing that belongs to another plane q: word_index,            *)
(* frame_length, n_words, row, m26_data_loss and m26_timestamps of q,      *)
(* frame_id[q] and event_status[q] are as before.                          *)
(***************************************************************************)
\* What belongs to plane q (1..6) in the variables b.
PlaneContext(b, q) ==
    <<b.word_index[q - 1], b.frame_length[q - 1], b.n_words[q - 1], b.row[q - 1],
      b.m26_data_loss[q - 1], b.m26_timestamps[q - 1], b.frame_id[q],
      b.event_status[q]>>

C25_PlaneIndependence ==
    \A tr \in {StepTrace} :
        \A i \in 1..Len(raw_data) :
            (/\ raw_data[i][1] \div 256 = \h20
             /\ (raw_data[i][1] \div 16) % 16 \in 1..6) =>
                \A q \in (1..6) \ {(raw_data[i][1] \div 16) % 16} :
                    PlaneContext(tr[i + 1], q) = PlaneContext(tr[i], q)

(***************************************************************************)
(* C26: the trigger number is checked two steps back.  Within one call,    *)
(* the hit of the third and of every later trigger word of the call has    *)
(* TRG_ERROR (0x0040) exactly when the number of the trigger word two      *)
(* trigger words before it, plus 1, differs from its number and its number *)
(* is > 0; the number of the trigger word right before it has no part.     *)
(***************************************************************************)
\* The positions before i of the trigger words of the last call.
CallTriggersBefore(i) == {j \in 1..(i - 1) : TriggerStep(j)}

\* The position of the trigger word two trigger words before word i.
TwoBack(i) ==
    CHOOSE j \in CallTriggersBefore(i) :
        Cardinality({k \in CallTriggersBefore(i) : k > j}) = 1

NoReservedBit(x) ==
    /\ x \in 0..(W16 - 1)
    /\ \A bit \in {MULTIPLE_TRG_WORD, NO_TRG_WORD, DATA_ERROR, TRUNC_EVENT, NO_HIT} :
           ~HasBit(x, bit)

SentinelsGuarded(b) ==
    \A p \in 0..(NPlanes - 1) :
        /\ b.n_words[p] > 0 => b.row[p] >= 0
        /\ b.word_index[p] >= 6 =>
               (b.frame_length[p] >= 0 /\ b.frame_length[p] % 2 = 0)

\* Some Mimosa26 word before position n of the stream that addresses the
\* cell of the plane of the hit has the row of the hit in its row field.
RowGivenBefore(hit, n) ==
    \E j \in 1..(n - 1) :
        /\ stream[j][1] \div 256 = \h20
        /\ Index(((stream[j][1] \div 16) % 16) - 1, NPlanes) = hit.plane - 1
        /\ (stream[j][2] \div 16) % 2048 = hit.row

C28_SentinelNeverEmitted ==
    \A tr \in {StepTrace} :
        /\ \A i \in 1..Len(tr) : SentinelsGuarded(tr[i])
        /\ \A i \in 1..Len(raw_data) :
            \A hit \in {NewHits(tr[i], tr[i + 1])[j] :
                            j \in 1..Len(NewHits(tr[i], tr[i + 1]))} :
                /\ hit.trigger_number \in 0..65535
                /\ tr[i + 1].trigger_number = -1 => hit.trigger_number = 0
                /\ hit.plane \in 1..NPlanes =>
                    /\ hit.row \in 0..2047
                    /\ hit.row = tr[i].row[hit.plane - 1]
                    /\ RowGivenBefore(hit, StreamIndex(i))

\* A hit of plane 1 in row 50 was returned before any trigger word, while
\* the planes that had no frame still hold the -1.
C28_Witness ==
    /\ Len(hits) = 1
    /\ hits[1].plane = 1
    /\ hits[1].row = 50
    /\ hits[1].trigger_number = 0
    /\ self.trigger_number = -1
    /\ self.row[1] = -1
    /\ self.frame_length[1] = -1
    /\ prev.row[0] = -1

=============================================================================
